---- MODULE Spec2Model ----
(***************************************************************************)
(* Model of c-error: the thread-local "last error" context of              *)
(* include/c-error/lasterror.h and src/lasterror.c.                        *)
(*                                                                         *)
(* C unsigned integers (uint64_t, size_t) are modelled by the set of the   *)
(* positions of their one-bits, so that 64-bit values, masks, shifts and   *)
(* wrap-around are exact.  C strings are arrays of non-zero bytes; a heap  *)
(* block is an array of bytes in which Uninit marks a byte whose value is  *)
(* indeterminate.  size_t is taken as 64 bits wide (an LP64/LLP64 build).  *)
(***************************************************************************)
EXTENDS Integers, Sequences, FiniteSets, TLC

(***************************************************************************)
(* Bounds of the model.                                                    *)
(***************************************************************************)
NumThreads == 2
NumCallerStrings == 1
LongLen == 300
MaxSizeBit == 40

(***************************************************************************)
(* Unsigned machine integers as sets of bit positions.                     *)
(***************************************************************************)
WordBits == 64
SizeBits == 64

SetMax(S) == CHOOSE x \in S : \A y \in S : y <= x
SetMin(S) == CHOOSE x \in S : \A y \in S : x <= y

\* The bit set of a natural number n, its lowest bit at position i.
RECURSIVE BitsFrom(_, _)
BitsFrom(n, i) ==
    IF n = 0 THEN {}
    ELSE (IF n % 2 = 1 THEN {i} ELSE {}) \cup BitsFrom(n \div 2, i + 1)

ToBits(n) == BitsFrom(n, 0)

\* The value of a bit set that fits in 31 bits.
RECURSIVE ToNat(_)
ToNat(a) == IF a = {} THEN 0
            ELSE LET i == SetMax(a) IN 2^i + ToNat(a \ {i})

BitAnd(a, b) == a \cap b
BitOr(a, b) == a \cup b
BitNot(a, w) == (0..(w - 1)) \ a
ShiftRight(a, k) == {i - k : i \in {j \in a : j >= k}}
ShiftLeft(a, k, w) == {i + k : i \in {j \in a : j + k < w}}

\* a > b for unsigned values.
Gt(a, b) == LET d == (a \ b) \cup (b \ a) IN d # {} /\ SetMax(d) \in a

\* n++ and n-- on a w-bit unsigned value (wrapping).
Inc(a, w) == LET zeros == (0..(w - 1)) \ a IN
             IF zeros = {} THEN {}
             ELSE LET z == SetMin(zeros) IN (a \ (0..z)) \cup {z}
Dec(a, w) == IF a = {} THEN 0..(w - 1)
             ELSE LET o == SetMin(a) IN (a \ {o}) \cup {i \in 0..(w - 1) : i < o}

(***************************************************************************)
(* Program constants.                                                      *)
(***************************************************************************)
VALID_ERROR_MASK == 0..52
ERROR_INFO_INITIAL_CAPACITY == 128

(***************************************************************************)
(* The bit-packed code: field positions, masks and macros.                 *)
(***************************************************************************)
ERROR_CODE_BIT_POS == 0
STATUS_BIT_POS == 16
COMPONENT_BIT_POS == 21
SOFTWARE_ID_BIT_POS == 32
RESERVED_BIT_POS == 40

ERROR_CODE_MASK == 0..15
STATUS_MASK == 16..20
COMPONENT_MASK == 21..31
SOFTWARE_ID_MASK == 32..39
RESERVED_MASK == 40..52

MAX_ERROR_CODE == 0..15
MAX_STATUS == 0..4
MAX_COMPONENT == 0..10
MAX_SOFTWARE_ID == 0..7
MAX_RESERVED == 0..12

\* (uintN_t)x: conversion to an unsigned type of w bits.
Cast(a, w) == {i \in a : i < w}

\* Mutant: the fields are shifted into place without being masked.
MAKE_ERROR_CODE_53_NoMask(reserved, softwareId, componentId, status, errorCode) ==
    BitOr(ShiftLeft(reserved, RESERVED_BIT_POS, WordBits),
    BitOr(ShiftLeft(softwareId, SOFTWARE_ID_BIT_POS, WordBits),
    BitOr(ShiftLeft(componentId, COMPONENT_BIT_POS, WordBits),
    BitOr(ShiftLeft(status, STATUS_BIT_POS, WordBits),
          errorCode))))

\* The arguments are what (uint64_t)(argument) yields.
MAKE_ERROR_CODE_53(reserved, softwareId, componentId, status, errorCode) ==
    BitOr(ShiftLeft(BitAnd(reserved, MAX_RESERVED), RESERVED_BIT_POS, WordBits),
    BitOr(ShiftLeft(BitAnd(softwareId, MAX_SOFTWARE_ID), SOFTWARE_ID_BIT_POS, WordBits),
    BitOr(ShiftLeft(BitAnd(componentId, MAX_COMPONENT), COMPONENT_BIT_POS, WordBits),
    BitOr(ShiftLeft(BitAnd(status, MAX_STATUS), STATUS_BIT_POS, WordBits),
          BitAnd(errorCode, MAX_ERROR_CODE)))))

GET_ERROR_CODE(ullError) ==
    Cast(ShiftRight(BitAnd(ullError, ERROR_CODE_MASK), ERROR_CODE_BIT_POS), 16)

GET_STATUS(ullError) ==
    Cast(ShiftRight(BitAnd(ullError, STATUS_MASK), STATUS_BIT_POS), 8)

\* Mutant: the component id is shifted down without being masked.
GET_COMPONENT_ID_NoMask(ullError) ==
    Cast(ShiftRight(ullError, COMPONENT_BIT_POS), 16)

GET_COMPONENT_ID(ullError) ==
    Cast(ShiftRight(BitAnd(ullError, COMPONENT_MASK), COMPONENT_BIT_POS), 16)

GET_SOFTWARE_ID(ullError) ==
    Cast(ShiftRight(BitAnd(ullError, SOFTWARE_ID_MASK), SOFTWARE_ID_BIT_POS), 8)

\* examples/basic_usage.c: the reserved field is extracted by hand.
GET_RESERVED(ullError) ==
    Cast(ShiftRight(BitAnd(ullError, RESERVED_MASK), RESERVED_BIT_POS), 16)

\* Mutant: the mask is complemented as a 32-bit value.
IS_VALID_ERROR_CODE_Narrow(ullError) ==
    BitAnd(ullError, BitNot(VALID_ERROR_MASK, 32)) = {}

\* (((ullError) & ~VALID_ERROR_MASK) == 0ULL)
IS_VALID_ERROR_CODE(ullError) ==
    BitAnd(ullError, BitNot(VALID_ERROR_MASK, WordBits)) = {}

(***************************************************************************)
(* Pointers, strings and heap blocks.                                      *)
(***************************************************************************)
Uninit == -1

NULL == [region |-> "null", id |-> 0]
HeapPtr(a) == [region |-> "heap", id |-> a]
CallerPtr(b) == [region |-> "caller", id |-> b]

\* The string literal "".
EmptyLiteral == [region |-> "literal", id |-> 0]

Threads == 1..NumThreads
MainThread == 1
HeapAddrs == 1..(NumThreads + 1)
CallerStrings == 1..NumCallerStrings

(***************************************************************************)
(* Byte arrays (strings and heap blocks) are kept run-length encoded: a    *)
(* sequence of runs [b |-> byte, n |-> count], count > 0, adjacent runs of *)
(* different bytes.  The encoding of a byte array is unique, so equality   *)
(* of encodings is equality of the arrays.                                 *)
(***************************************************************************)
Rep(b, n) == IF n = 0 THEN <<>> ELSE <<[b |-> b, n |-> n]>>

Cat(x, y) ==
    IF x = <<>> THEN y
    ELSE IF y = <<>> THEN x
    ELSE IF x[Len(x)].b = y[1].b
         THEN SubSeq(x, 1, Len(x) - 1)
              \o <<[b |-> y[1].b, n |-> x[Len(x)].n + y[1].n]>>
              \o Tail(y)
         ELSE x \o y

RECURSIVE ByteLen(_)
ByteLen(x) == IF x = <<>> THEN 0 ELSE x[1].n + ByteLen(Tail(x))

\* The array without its first k bytes.
RECURSIVE Drop(_, _)
Drop(x, k) ==
    IF k = 0 \/ x = <<>> THEN x
    ELSE IF x[1].n <= k THEN Drop(Tail(x), k - x[1].n)
    ELSE <<[b |-> x[1].b, n |-> x[1].n - k]>> \o Tail(x)

\* The first k bytes of the array.
RECURSIVE Take(_, _)
Take(x, k) ==
    IF k = 0 \/ x = <<>> THEN <<>>
    ELSE IF x[1].n <= k THEN Cat(<<x[1]>>, Take(Tail(x), k - x[1].n))
    ELSE <<[b |-> x[1].b, n |-> k]>>

FreeBlock == [live |-> FALSE, bytes |-> <<>>]

\* The C string starting at the first byte of a block: the bytes before the
\* first zero byte.  A block without a zero byte has no terminator inside it:
\* the read runs off its end, shown by a trailing Uninit.
RECURSIVE CStr(_)
CStr(bytes) ==
    IF bytes = <<>> THEN Rep(Uninit, 1)
    ELSE IF bytes[1].b = 0 THEN <<>>
    ELSE Cat(<<bytes[1]>>, CStr(Tail(bytes)))

(***************************************************************************)
(* State.                                                                  *)
(*   g_LastErrorCtx  the thread-local ErrorContext of every thread         *)
(*   heap            the allocator's blocks (malloc/realloc/free)          *)
(*   callerMem       the caller-owned strings handed over as borrowed text *)
(*   ndebug          the build: TRUE when assert() is compiled out         *)
(*   aborted         the process was ended by a failed assert()            *)
(*   ub              an access outside a live block has happened           *)
(*   last            the call that produced the current state              *)
(*   sz              input and result of the capacity computation when it  *)
(*                   is exercised on its own (SpecCapacity)                *)
(*   exited          the threads that have ended                           *)
(*   codec           arguments and result of the code construction macro   *)
(*                   when the codec is exercised (SpecCodec)               *)
(*   helper          the threads whose thread_local CErrorHelper of the    *)
(*                   C++ wrapper has been constructed (SpecWrapper)        *)
(*   wrapper         the C++ wrapper function through which the last call  *)
(*                   was made, "none" for a call of the C function itself  *)
(***************************************************************************)
VARIABLES g_LastErrorCtx, heap, callerMem, ndebug, aborted, ub, last, sz,
          exited, codec, helper, wrapper

vars == <<g_LastErrorCtx, heap, callerMem, ndebug, aborted, ub, last, sz, exited, codec,
          helper, wrapper>>

\* The part of the state that belongs to the C++ wrapper; the C functions
\* know nothing of it.
cxx == <<helper, wrapper>>

ErrorContext(code, info, buffer, capacity) ==
    [ullLastError |-> code, pszLastErrorInfo |-> info,
     pszLastErrorInfoBuffer |-> buffer, nBufferCapacity |-> capacity]

\* = {0}: the zero-initialised thread-local context.
ZeroContext == ErrorContext({}, NULL, NULL, {})

\* A const char* argument: NULL, or a string with the content it has at the call.
NullText == [null |-> TRUE, str |-> <<>>]
Text(s) == [null |-> FALSE, str |-> s]

\* The record of a call: what was called by which thread with which arguments,
\* what the allocator did in it, and whether it acts on a context whose
\* buffer the call before it, a cleanup by the same thread, has released.
Call(op, t, code, ptr, text, alloc) ==
    [op |-> op, t |-> t, code |-> code, ptr |-> ptr, text |-> text, alloc |-> alloc,
     reused |-> (last.op = "cleanup" /\ last.alloc = "free" /\ last.t = t)]
NoCall ==
    [op |-> "none", t |-> MainThread, code |-> {}, ptr |-> NULL, text |-> NullText,
     alloc |-> "none", reused |-> FALSE]

(***************************************************************************)
(* Inputs.                                                                 *)
(***************************************************************************)
CodeInputs == { {0, 16, 21, 32, 40}, 0..(WordBits - 1) }

CopyTexts == { <<>>, Rep(2, 2),
               Rep(1, ERROR_INFO_INITIAL_CAPACITY - 1),
               Rep(3, ERROR_INFO_INITIAL_CAPACITY),
               Rep(1, LongLen) }

CallerTexts == { Rep(4, 1), Rep(2, 2) }

CopyArgs == {NullText} \cup {Text(s) : s \in CopyTexts}

\* The caller hands one of its own strings, as it is now, to the copying call.
CallerCopyArgs(cm) == {Text(cm[b]) : b \in CallerStrings}
BorrowArgs == {NULL} \cup {CallerPtr(b) : b \in CallerStrings}

(***************************************************************************)
(* The allocator.                                                          *)
(***************************************************************************)
\* What realloc(p, n) may do: fail, extend the block where it is, or hand
\* out another block (p = NULL: a new block) and free the old one.  Which
\* free address a new block gets cannot be observed (it differs from every
\* live one), so the lowest stands for all of them.
ReallocOutcomes(h, p) ==
    {[kind |-> "fail", addr |-> 0]}
    \cup (IF p # NULL THEN {[kind |-> "inplace", addr |-> p.id]} ELSE {})
    \cup {[kind |-> "moved", addr |-> SetMin({x \in HeapAddrs : ~h[x].live})]}

\* Mutant: a moving realloc leaves the old block allocated.
ReallocHeap_KeepsOld(h, p, n, r) ==
    LET old == IF p = NULL THEN <<>> ELSE h[p.id].bytes
        new == IF n <= ByteLen(old) THEN Take(old, n)
               ELSE Cat(old, Rep(Uninit, n - ByteLen(old)))
    IN [h EXCEPT ![r.addr] = [live |-> TRUE, bytes |-> new]]

\* The heap after a successful realloc(p, n) with outcome r; the bytes beyond
\* the old size are indeterminate.
ReallocHeap(h, p, n, r) ==
    LET old == IF p = NULL THEN <<>> ELSE h[p.id].bytes
        new == IF n <= ByteLen(old) THEN Take(old, n)
               ELSE Cat(old, Rep(Uninit, n - ByteLen(old)))
        h1 == IF p # NULL /\ r.kind = "moved"
              THEN [h EXCEPT ![p.id] = FreeBlock] ELSE h
    IN [h1 EXCEPT ![r.addr] = [live |-> TRUE, bytes |-> new]]

\* Mutant: the copy forgets the terminating zero byte.
CopyString_NoTerminator(bytes, s) ==
    IF ByteLen(s) <= ByteLen(bytes)
    THEN Cat(s, Drop(bytes, ByteLen(s)))
    ELSE Take(s, ByteLen(bytes))

\* memcpy(buffer, text, nLength); buffer[nLength] = '\0'
\* What the block holds afterwards; of a write that is longer than the block
\* only the part inside the block is kept here.
CopyString(bytes, s) ==
    LET w == Cat(s, Rep(0, 1)) IN
    IF ByteLen(w) <= ByteLen(bytes)
    THEN Cat(w, Drop(bytes, ByteLen(w)))
    ELSE Take(w, ByteLen(bytes))

\* Whether writing n bytes at the start of the block p points to is inside a
\* live block.
Writable(h, p, n) == p # NULL /\ h[p.id].live /\ n <= ByteLen(h[p.id].bytes)

\* The bytes of the block p points to (none behind NULL).
BlockBytes(h, p) == IF p = NULL THEN <<>> ELSE h[p.id].bytes

\* The heap after writing through p: unchanged when p is no live block.
WriteHeap(h, p, bytes) ==
    IF p # NULL /\ h[p.id].live THEN [h EXCEPT ![p.id].bytes = bytes] ELSE h

(***************************************************************************)
(* The capacity computation of cerror_set_last_info_copy.                  *)
(***************************************************************************)
\* n--; n |= n >> 1; ... n |= n >> 16; n++
RoundUpPow2(nRequiredCapacity) ==
    LET n0 == Dec(nRequiredCapacity, SizeBits)
        n1 == BitOr(n0, ShiftRight(n0, 1))
        n2 == BitOr(n1, ShiftRight(n1, 2))
        n3 == BitOr(n2, ShiftRight(n2, 4))
        n4 == BitOr(n3, ShiftRight(n3, 8))
        n5 == BitOr(n4, ShiftRight(n4, 16))
    IN Inc(n5, SizeBits)

NewCapacity(nRequiredCapacity) ==
    LET n == RoundUpPow2(nRequiredCapacity) IN
    IF Gt(n, ToBits(ERROR_INFO_INITIAL_CAPACITY)) THEN n
    ELSE ToBits(ERROR_INFO_INITIAL_CAPACITY)

(***************************************************************************)
(* The operations on the calling thread's context.                         *)
(***************************************************************************)
\* Mutant: the code is stored without masking.
StoreCode_NoMask(ctx, ullError) == [ctx EXCEPT !.ullLastError = ullError]

\* g_LastErrorCtx.ullLastError = ullError & VALID_ERROR_MASK
StoreCode(ctx, ullError) ==
    [ctx EXCEPT !.ullLastError = BitAnd(ullError, VALID_ERROR_MASK)]

cerror_get_last(t) == g_LastErrorCtx[t].ullLastError

\* Mutant: the status bits are shifted down without being masked.
cerror_get_last_status_NoMask(t) ==
    Cast(ShiftRight(g_LastErrorCtx[t].ullLastError, STATUS_BIT_POS), 8)

cerror_get_last_code(t) == GET_ERROR_CODE(g_LastErrorCtx[t].ullLastError)
cerror_get_last_status(t) == GET_STATUS(g_LastErrorCtx[t].ullLastError)
cerror_get_last_component_id(t) == GET_COMPONENT_ID(g_LastErrorCtx[t].ullLastError)
cerror_get_last_software_id(t) == GET_SOFTWARE_ID(g_LastErrorCtx[t].ullLastError)

\* Mutant: the stored pointer is returned as it is.
ReturnedInfo_Raw(ctx) == ctx.pszLastErrorInfo

\* return NULL == pszLastErrorInfo ? "" : pszLastErrorInfo
\* The pointer cerror_get_last_info returns.
ReturnedInfo(ctx) ==
    IF ctx.pszLastErrorInfo = NULL THEN EmptyLiteral ELSE ctx.pszLastErrorInfo

\* The string a pointer refers to.  A null pointer refers to none, and a
\* pointer into a block that is no longer live is dangling: what is read
\* there is indeterminate.
StringAt(h, cm, p) ==
    IF p = EmptyLiteral THEN <<>>
    ELSE IF p = NULL THEN Rep(Uninit, 1)
    ELSE IF p.region = "caller" THEN cm[p.id]
    ELSE IF h[p.id].live THEN CStr(h[p.id].bytes)
    ELSE Rep(Uninit, 1)

\* The string the pointer returned by cerror_get_last_info refers to.
cerror_get_last_info(t) ==
    StringAt(heap, callerMem, ReturnedInfo(g_LastErrorCtx[t]))

\* Mutant: g_LastErrorCtx is one object shared by all threads.
cerror_set_last_Shared(t, ullError) ==
    /\ ~aborted /\ ~ub /\ t \notin exited
    /\ g_LastErrorCtx' = [u \in Threads |-> StoreCode(g_LastErrorCtx[u], ullError)]
    /\ last' = Call("set", t, ullError, NULL, NullText, "none")
    /\ UNCHANGED <<heap, callerMem, ndebug, aborted, ub, sz, exited, codec>>

\* Mutant: setting a code also drops the info attached to the earlier one.
cerror_set_last_ClearsInfo(t, ullError) ==
    /\ ~aborted /\ ~ub /\ t \notin exited
    /\ g_LastErrorCtx' = [g_LastErrorCtx EXCEPT
                            ![t] = [StoreCode(@, ullError) EXCEPT
                                      !.pszLastErrorInfo = NULL]]
    /\ last' = Call("set", t, ullError, NULL, NullText, "none")
    /\ UNCHANGED <<heap, callerMem, ndebug, aborted, ub, sz, exited, codec>>

cerror_set_last(t, ullError) ==
    /\ ~aborted /\ ~ub /\ t \notin exited
    /\ g_LastErrorCtx' = [g_LastErrorCtx EXCEPT ![t] = StoreCode(@, ullError)]
    /\ last' = Call("set", t, ullError, NULL, NullText, "none")
    /\ UNCHANGED <<heap, callerMem, ndebug, aborted, ub, sz, exited, codec>>

\* Mutant: clear resets the code only.
cerror_clear_last_CodeOnly(t) ==
    /\ ~aborted /\ ~ub /\ t \notin exited
    /\ g_LastErrorCtx' = [g_LastErrorCtx EXCEPT ![t].ullLastError = {}]
    /\ last' = Call("clear", t, {}, NULL, NullText, "none")
    /\ UNCHANGED <<heap, callerMem, ndebug, aborted, ub, sz, exited, codec>>

\* pszLastErrorInfoBuffer[0] = '\0'
EmptyString(bytes) == Cat(Rep(0, 1), Drop(bytes, 1))

cerror_clear_last(t) ==
    LET buf == g_LastErrorCtx[t].pszLastErrorInfoBuffer IN
    /\ ~aborted /\ ~ub /\ t \notin exited
    /\ g_LastErrorCtx' = [g_LastErrorCtx EXCEPT
                            ![t].ullLastError = {},
                            ![t].pszLastErrorInfo = NULL]
    /\ IF buf # NULL
       THEN /\ heap' = WriteHeap(heap, buf, EmptyString(BlockBytes(heap, buf)))
            /\ ub' = ~Writable(heap, buf, 1)
       ELSE UNCHANGED <<heap, ub>>
    /\ last' = Call("clear", t, {}, NULL, NullText, "none")
    /\ UNCHANGED <<callerMem, ndebug, aborted, sz, exited, codec>>

\* Mutant: the code is stored but the pointer is not.
cerror_set_last_info_KeepsInfo(t, ullError, pszErrorInfo) ==
    /\ ~aborted /\ ~ub /\ t \notin exited
    /\ g_LastErrorCtx' = [g_LastErrorCtx EXCEPT ![t] = StoreCode(@, ullError)]
    /\ last' = Call("borrow", t, ullError, pszErrorInfo,
                    IF pszErrorInfo = NULL THEN NullText
                    ELSE Text(callerMem[pszErrorInfo.id]), "none")
    /\ UNCHANGED <<heap, callerMem, ndebug, aborted, ub, sz, exited, codec>>

cerror_set_last_info(t, ullError, pszErrorInfo) ==
    /\ ~aborted /\ ~ub /\ t \notin exited
    /\ g_LastErrorCtx' = [g_LastErrorCtx EXCEPT
                            ![t] = [StoreCode(@, ullError) EXCEPT
                                      !.pszLastErrorInfo = pszErrorInfo]]
    /\ last' = Call("borrow", t, ullError, pszErrorInfo,
                    IF pszErrorInfo = NULL THEN NullText
                    ELSE Text(callerMem[pszErrorInfo.id]), "none")
    /\ UNCHANGED <<heap, callerMem, ndebug, aborted, ub, sz, exited, codec>>

\* Mutant: a NULL text drops the info.
NullTextContext_ClearsInfo(ctx, ullError) ==
    [ctx EXCEPT !.pszLastErrorInfo = NULL]

\* Mutant: the code is stored before the NULL check.
NullTextContext_StoresCode(ctx, ullError) == StoreCode(ctx, ullError)

\* if (NULL == pszErrorInfo) { assert(NULL != pszErrorInfo); return; }
\* The context a call with a NULL text leaves behind.
NullTextContext(ctx, ullError) == ctx

\* Mutant: no room is counted for the terminating zero byte.
RequiredCapacity_NoTerminator(nLength) == ToBits(nLength)

\* const size_t nRequiredCapacity = nLength + 1;
RequiredCapacity(nLength) == ToBits(nLength + 1)

\* Mutant: the buffer is reallocated on every call.
NeedsGrowth_Always(ctx, nRequiredCapacity) == TRUE

\* Mutant: the buffer is refitted whenever the required size differs.
NeedsGrowth_Refit(ctx, nRequiredCapacity) ==
    nRequiredCapacity # ctx.nBufferCapacity

\* if (nRequiredCapacity > g_LastErrorCtx.nBufferCapacity)
NeedsGrowth(ctx, nRequiredCapacity) ==
    Gt(nRequiredCapacity, ctx.nBufferCapacity)

\* Mutant: the new capacity is not recorded.
GrownContext_ForgetsCapacity(ctx, pNewBuffer, nNewCapacity) ==
    [ctx EXCEPT !.pszLastErrorInfoBuffer = pNewBuffer]

\* realloc succeeded: the context takes the new block and its capacity.
GrownContext(ctx, pNewBuffer, nNewCapacity) ==
    [ctx EXCEPT !.pszLastErrorInfoBuffer = pNewBuffer,
                !.nBufferCapacity = nNewCapacity]

\* Mutant: the result of realloc is assigned to the buffer pointer directly,
\* so a failure loses the old buffer.
AllocFailedContext_DropsBuffer(ctx, nNewCapacity) ==
    [ctx EXCEPT !.pszLastErrorInfoBuffer = NULL]

\* realloc failed: "keep old buffer (if any), but can't store new message".
AllocFailedContext(ctx, nNewCapacity) == ctx

\* Mutant: the info pointer is set only when there was none.
PointAtBuffer_Stale(ctx) ==
    IF ctx.pszLastErrorInfo = NULL
    THEN [ctx EXCEPT !.pszLastErrorInfo = ctx.pszLastErrorInfoBuffer]
    ELSE ctx

\* g_LastErrorCtx.pszLastErrorInfo = g_LastErrorCtx.pszLastErrorInfoBuffer
PointAtBuffer(ctx) ==
    [ctx EXCEPT !.pszLastErrorInfo = ctx.pszLastErrorInfoBuffer]

cerror_set_last_info_copy(t, ullError, pszErrorInfo) ==
    /\ ~aborted /\ ~ub /\ t \notin exited
    /\ IF pszErrorInfo.null
       THEN /\ aborted' = ~ndebug
            /\ g_LastErrorCtx' =
                  [g_LastErrorCtx EXCEPT ![t] = NullTextContext(@, ullError)]
            /\ last' = Call("copy", t, ullError, NULL, pszErrorInfo, "none")
            /\ UNCHANGED <<heap, ub>>
       ELSE
         LET ctx1 == StoreCode(g_LastErrorCtx[t], ullError)
             nLength == ByteLen(pszErrorInfo.str)
             nRequiredCapacity == RequiredCapacity(nLength)
         IN
         IF NeedsGrowth(ctx1, nRequiredCapacity)
         THEN
           LET nNewCapacity == NewCapacity(nRequiredCapacity) IN
           \E r \in ReallocOutcomes(heap, ctx1.pszLastErrorInfoBuffer) :
             /\ last' = Call("copy", t, ullError, NULL, pszErrorInfo, r.kind)
             /\ IF r.kind = "fail"
                THEN \* assert(pNewBuffer != NULL); ... return;
                     /\ aborted' = ~ndebug
                     /\ g_LastErrorCtx' =
                           [g_LastErrorCtx EXCEPT
                              ![t] = AllocFailedContext(ctx1, nNewCapacity)]
                     /\ UNCHANGED <<heap, ub>>
                ELSE
                  LET h2 == ReallocHeap(heap, ctx1.pszLastErrorInfoBuffer,
                                        ToNat(nNewCapacity), r)
                      ctx2 == GrownContext(ctx1, HeapPtr(r.addr), nNewCapacity)
                      buf == ctx2.pszLastErrorInfoBuffer
                  IN
                  /\ aborted' = aborted
                  /\ heap' = WriteHeap(h2, buf,
                                CopyString(BlockBytes(h2, buf), pszErrorInfo.str))
                  /\ ub' = ~Writable(h2, buf, nLength + 1)
                  /\ g_LastErrorCtx' =
                        [g_LastErrorCtx EXCEPT ![t] = PointAtBuffer(ctx2)]
         ELSE
           LET buf == ctx1.pszLastErrorInfoBuffer IN
           /\ last' = Call("copy", t, ullError, NULL, pszErrorInfo, "none")
           /\ aborted' = aborted
           /\ heap' = WriteHeap(heap, buf,
                         CopyString(BlockBytes(heap, buf), pszErrorInfo.str))
           /\ ub' = ~Writable(heap, buf, nLength + 1)
           /\ g_LastErrorCtx' =
                 [g_LastErrorCtx EXCEPT ![t] = PointAtBuffer(ctx1)]
    /\ UNCHANGED <<callerMem, ndebug, sz, exited, codec>>

\* Mutant: cleanup frees the block but keeps the pointer to it.
ReleasedContext_KeepsPointer(ctx) ==
    [ctx EXCEPT !.nBufferCapacity = {}, !.pszLastErrorInfo = NULL]

\* Mutant: cleanup does not reset the capacity.
ReleasedContext_KeepsCapacity(ctx) ==
    [ctx EXCEPT !.pszLastErrorInfoBuffer = NULL]

\* free(buffer); pszLastErrorInfoBuffer = NULL; nBufferCapacity = 0;
ReleasedContext(ctx) ==
    [ctx EXCEPT !.pszLastErrorInfoBuffer = NULL, !.nBufferCapacity = {}]

\* ullLastError = 0ULL; pszLastErrorInfo = NULL;
ResetContext(ctx) ==
    [ctx EXCEPT !.ullLastError = {}, !.pszLastErrorInfo = NULL]

cleanupThreadLocalErrorBuffer(t) ==
    LET ctx == g_LastErrorCtx[t]
        buf == ctx.pszLastErrorInfoBuffer
    IN
    /\ ~aborted /\ ~ub /\ t \notin exited
    /\ IF buf # NULL
       THEN /\ g_LastErrorCtx' = [g_LastErrorCtx EXCEPT
                                    ![t] = ResetContext(ReleasedContext(ctx))]
            /\ heap' = [heap EXCEPT ![buf.id] = FreeBlock]
            /\ ub' = ~heap[buf.id].live
       ELSE /\ g_LastErrorCtx' = [g_LastErrorCtx EXCEPT
                                    ![t] = ResetContext(ctx)]
            /\ UNCHANGED <<heap, ub>>
    /\ last' = Call("cleanup", t, {}, NULL, NullText,
                    IF buf # NULL THEN "free" ELSE "none")
    /\ UNCHANGED <<callerMem, ndebug, aborted, sz, exited, codec>>

\* The caller overwrites one of its own strings in place.
CallerWrite(t, b, s) ==
    /\ ~aborted /\ ~ub /\ t \notin exited
    /\ callerMem' = [callerMem EXCEPT ![b] = s]
    /\ last' = Call("write", t, {}, CallerPtr(b), Text(s), "none")
    /\ UNCHANGED <<g_LastErrorCtx, heap, ndebug, aborted, ub, sz, exited, codec>>

\* The thread ends.  The runtime reclaims the thread-local context; nothing
\* frees the block its buffer pointer referred to.  The context's last value
\* is kept to name that block.
ThreadExit(t) ==
    /\ ~aborted /\ ~ub /\ t \notin exited
    /\ exited' = exited \cup {t}
    /\ last' = Call("exit", t, {}, NULL, NullText, "none")
    /\ UNCHANGED <<g_LastErrorCtx, heap, callerMem, ndebug, aborted, ub, sz, codec>>

\* The codec is not exercised.
NoCodec ==
    [stage |-> "idle", reserved |-> {}, softwareId |-> {}, componentId |-> {},
     status |-> {}, errorCode |-> {}, code |-> {}]

(***************************************************************************)
(* Specification: one thread uses its context with any build.              *)
(***************************************************************************)
Init ==
    /\ g_LastErrorCtx = [t \in Threads |-> ZeroContext]
    /\ heap = [a \in HeapAddrs |-> FreeBlock]
    /\ callerMem \in [CallerStrings -> CallerTexts]
    /\ ndebug \in BOOLEAN
    /\ aborted = FALSE
    /\ ub = FALSE
    /\ last = NoCall
    /\ sz = [current |-> {}, n |-> {}, capacity |-> {}, done |-> FALSE]
    /\ exited = {}
    /\ codec = NoCodec
    /\ helper = {}
    /\ wrapper = "none"

Next ==
    /\ UNCHANGED cxx
    /\ \E t \in {MainThread} :
        \/ \E x \in CodeInputs : cerror_set_last(t, x)
        \/ cerror_clear_last(t)
        \/ \E x \in CodeInputs, p \in BorrowArgs : cerror_set_last_info(t, x, p)
        \/ \E x \in CodeInputs, s \in CopyArgs \cup CallerCopyArgs(callerMem) :
              cerror_set_last_info_copy(t, x, s)
        \/ cleanupThreadLocalErrorBuffer(t)
        \/ \E b \in CallerStrings, s \in CallerTexts : CallerWrite(t, b, s)
        \/ ThreadExit(t)

Spec == Init /\ [][Next]_vars

(***************************************************************************)
(* Specification of the capacity computation on its own: any required      *)
(* size up to 2^(MaxSizeBit+1) against a context that has no buffer yet or *)
(* one of the initial capacity.                                            *)
(***************************************************************************)
SizeInputs == UNION { { {k}, {0, k}, 0..k } : k \in 0..MaxSizeBit }

InitCapacity ==
    /\ g_LastErrorCtx = [t \in Threads |-> ZeroContext]
    /\ heap = [a \in HeapAddrs |-> FreeBlock]
    /\ callerMem = [b \in CallerStrings |-> <<>>]
    /\ ndebug = TRUE
    /\ aborted = FALSE
    /\ ub = FALSE
    /\ last = NoCall
    /\ sz \in [current : { {}, ToBits(ERROR_INFO_INITIAL_CAPACITY) },
               n : SizeInputs, capacity : { {} }, done : {FALSE}]
    /\ exited = {}
    /\ codec = NoCodec
    /\ helper = {}
    /\ wrapper = "none"

\* Lines 287-308: the buffer grows to the computed capacity.
GrowCapacity ==
    /\ ~sz.done
    /\ NeedsGrowth(ErrorContext({}, NULL, NULL, sz.current), sz.n)
    /\ sz' = [sz EXCEPT !.capacity = NewCapacity(sz.n), !.done = TRUE]
    /\ UNCHANGED <<g_LastErrorCtx, heap, callerMem, ndebug, aborted, ub, last,
                   exited, codec>>

\* Line 287 false: the buffer is large enough and keeps its capacity.
KeepCapacity ==
    /\ ~sz.done
    /\ ~NeedsGrowth(ErrorContext({}, NULL, NULL, sz.current), sz.n)
    /\ sz' = [sz EXCEPT !.capacity = sz.current, !.done = TRUE]
    /\ UNCHANGED <<g_LastErrorCtx, heap, callerMem, ndebug, aborted, ub, last,
                   exited, codec>>

NextCapacity == UNCHANGED cxx /\ (GrowCapacity \/ KeepCapacity)

SpecCapacity == InitCapacity /\ [][NextCapacity]_vars

(***************************************************************************)
(* Specification of the codec: a code is constructed from five field       *)
(* arguments, or taken as a raw 64-bit value, and then stored in and       *)
(* cleared from the calling thread's context.  Every field argument is 0,  *)
(* the value of the example program, the largest value of the field, the   *)
(* first value that does not fit (2^width), or all 64 bits set.            *)
(***************************************************************************)
FieldInputs(max, example) ==
    { {}, ToBits(example), max, {Cardinality(max)}, 0..(WordBits - 1) }

RawCodes == { {}, {52}, {53}, {63}, 0..52, 0..(WordBits - 1) }

InitCodec ==
    /\ g_LastErrorCtx = [t \in Threads |-> ZeroContext]
    /\ heap = [a \in HeapAddrs |-> FreeBlock]
    /\ callerMem = [b \in CallerStrings |-> <<>>]
    /\ ndebug = TRUE
    /\ aborted = FALSE
    /\ ub = FALSE
    /\ last = NoCall
    /\ sz = [current |-> {}, n |-> {}, capacity |-> {}, done |-> FALSE]
    /\ exited = {}
    /\ helper = {}
    /\ wrapper = "none"
    /\ \/ codec \in [stage : {"fields"},
                      reserved : FieldInputs(MAX_RESERVED, 2748),
                      softwareId : FieldInputs(MAX_SOFTWARE_ID, 66),
                      componentId : FieldInputs(MAX_COMPONENT, 1383),
                      status : FieldInputs(MAX_STATUS, 13),
                      errorCode : FieldInputs(MAX_ERROR_CODE, 35073),
                      code : { {} }]
       \/ codec \in [stage : {"raw"}, reserved : { {} }, softwareId : { {} },
                      componentId : { {} }, status : { {} }, errorCode : { {} },
                      code : RawCodes]

\* code = MAKE_ERROR_CODE_53(reserved, softwareId, componentId, status, errorCode)
MakeCode ==
    /\ codec.stage = "fields"
    /\ codec' = [codec EXCEPT
                   !.stage = "packed",
                   !.code = MAKE_ERROR_CODE_53(codec.reserved, codec.softwareId,
                                               codec.componentId, codec.status,
                                               codec.errorCode)]
    /\ UNCHANGED <<g_LastErrorCtx, heap, callerMem, ndebug, aborted, ub, last,
                   sz, exited>>

NextCodec ==
    /\ UNCHANGED cxx
    /\ \/ MakeCode
       \/ codec.stage # "fields" /\ cerror_set_last(MainThread, codec.code)
       \/ codec.stage # "fields" /\ cerror_clear_last(MainThread)
       \/ codec.stage # "fields" /\ cleanupThreadLocalErrorBuffer(MainThread)

SpecCodec == InitCodec /\ [][NextCodec]_vars

(***************************************************************************)
(* Specification of several threads: every thread uses its own context in  *)
(* any interleaving with the others, storing a code and a text that are   *)
(* its own, or borrowing a string literal that all threads see.            *)
(***************************************************************************)
ThreadCode(t) == {t, 52 + t}
ThreadTexts(t) == { Rep(t, 2) }
ThreadBorrowArgs == {NULL, CallerPtr(1)}

InitThreads ==
    /\ g_LastErrorCtx = [t \in Threads |-> ZeroContext]
    /\ heap = [a \in HeapAddrs |-> FreeBlock]
    /\ callerMem = [b \in CallerStrings |-> Rep(4, 1)]
    /\ ndebug \in BOOLEAN
    /\ aborted = FALSE
    /\ ub = FALSE
    /\ last = NoCall
    /\ sz = [current |-> {}, n |-> {}, capacity |-> {}, done |-> FALSE]
    /\ exited = {}
    /\ codec = NoCodec
    /\ helper = {}
    /\ wrapper = "none"

NextThreads ==
    /\ UNCHANGED cxx
    /\ \E t \in Threads :
        \/ cerror_set_last(t, ThreadCode(t))
        \/ cerror_clear_last(t)
        \/ \E p \in ThreadBorrowArgs : cerror_set_last_info(t, ThreadCode(t), p)
        \/ \E x \in ThreadTexts(t) :
              cerror_set_last_info_copy(t, ThreadCode(t), Text(x))
        \/ cleanupThreadLocalErrorBuffer(t)

SpecThreads == InitThreads /\ [][NextThreads]_vars

(***************************************************************************)
(* The C++ wrapper (namespace Chameleon).                                  *)
(***************************************************************************)
\* Mutant: gc() constructs nothing.
gc_Nothing(t) == UNCHANGED helper

\* static thread_local CErrorHelper helper: constructed when the thread's
\* control first passes through the declaration, and only then.
gc(t) == helper' = helper \cup {t}

setLastError(t, ullError) ==
    /\ gc(t)
    /\ cerror_set_last(t, ullError)
    /\ wrapper' = "setLastError"

setLastErrorInfo(t, ullError, pszErrorInfo) ==
    /\ gc(t)
    /\ cerror_set_last_info(t, ullError, pszErrorInfo)
    /\ wrapper' = "setLastErrorInfo"

setLastErrorInfoCopy(t, ullError, pszErrorInfo) ==
    /\ gc(t)
    /\ cerror_set_last_info_copy(t, ullError, pszErrorInfo)
    /\ wrapper' = "setLastErrorInfoCopy"

clearLastError(t) ==
    /\ cerror_clear_last(t)
    /\ wrapper' = "clearLastError"
    /\ UNCHANGED helper

\* ~CErrorHelper() { cerror_cleanup_thread_local_buffer(); } on the thread's
\* context: the cleanup of lasterror.c.
DestroyHelper(t) ==
    LET ctx == g_LastErrorCtx[t]
        buf == ctx.pszLastErrorInfoBuffer
    IN
    IF buf # NULL
    THEN /\ g_LastErrorCtx' = [g_LastErrorCtx EXCEPT
                                 ![t] = ResetContext(ReleasedContext(ctx))]
         /\ heap' = [heap EXCEPT ![buf.id] = FreeBlock]
         /\ ub' = ~heap[buf.id].live
    ELSE /\ g_LastErrorCtx' = [g_LastErrorCtx EXCEPT ![t] = ResetContext(ctx)]
         /\ UNCHANGED <<heap, ub>>

\* A thread of a C++ program ends: the objects of thread storage duration
\* that were constructed are destroyed, which is the helper if the thread
\* has one; then the runtime reclaims the context as in ThreadExit.  The
\* call record names the buffer the thread held when it ended.
ThreadExitCxx(t) ==
    /\ ~aborted /\ ~ub /\ t \notin exited
    /\ IF t \in helper
       THEN DestroyHelper(t)
       ELSE UNCHANGED <<g_LastErrorCtx, heap, ub>>
    /\ exited' = exited \cup {t}
    /\ last' = Call("exit", t, {}, g_LastErrorCtx[t].pszLastErrorInfoBuffer, NullText,
                    IF t \in helper /\ g_LastErrorCtx[t].pszLastErrorInfoBuffer # NULL
                    THEN "free" ELSE "none")
    /\ wrapper' = "none"
    /\ UNCHANGED <<callerMem, ndebug, aborted, sz, codec, helper>>

(***************************************************************************)
(* Specification of a C++ program: every thread uses its context through   *)
(* the wrapper or through the C functions, in any interleaving with the    *)
(* others, and ends.                                                       *)
(***************************************************************************)
NextWrapper ==
    \E t \in Threads :
        \/ setLastError(t, ThreadCode(t))
        \/ setLastErrorInfo(t, ThreadCode(t), CallerPtr(1))
        \/ \E x \in ThreadTexts(t) : setLastErrorInfoCopy(t, ThreadCode(t), Text(x))
        \/ clearLastError(t)
        \/ /\ \E x \in ThreadTexts(t) :
                 cerror_set_last_info_copy(t, ThreadCode(t), Text(x))
           /\ wrapper' = "none"
           /\ UNCHANGED helper
        \/ ThreadExitCxx(t)

SpecWrapper == InitThreads /\ [][NextWrapper]_vars

(***************************************************************************)
(* Vocabulary of the properties.                                           *)
(***************************************************************************)
\* A 64-bit value reduced to its low 53 bits.
Low53(x) == {i \in x : i < 53}

Ctx(t) == g_LastErrorCtx[t]

OwnedBytes(t) == BlockBytes(heap, Ctx(t).pszLastErrorInfoBuffer)

HasBuffer(t) == Ctx(t).pszLastErrorInfoBuffer # NULL

IsPow2(a) == Cardinality(a) = 1

\* The smallest power of two that is at least n (n > 0).
SmallestPow2AtLeast(n) == IF IsPow2(n) THEN n ELSE {SetMax(n) + 1}

Larger(a, b) == IF Gt(a, b) THEN a ELSE b

\* The heap blocks that are allocated.
LiveBlocks == {a \in HeapAddrs : heap[a].live}

\* The block a thread's context holds as its owned buffer, if any.
BufferOf(t) ==
    IF HasBuffer(t) THEN {Ctx(t).pszLastErrorInfoBuffer.id} ELSE {}

\* The field arguments of the codec are all within their fields' ranges.
FieldsInRange ==
    /\ codec.reserved \subseteq 0..12
    /\ codec.softwareId \subseteq 0..7
    /\ codec.componentId \subseteq 0..10
    /\ codec.status \subseteq 0..4
    /\ codec.errorCode \subseteq 0..15

\* A value reduced modulo 2^width.
Mod2(a, width) == {i \in a : i < width}

\* The fields of the example program: 0xABC, 0x42, 0x567, 0x0D, 0x8901.
ExampleFields ==
    /\ codec.reserved = ToBits(2748)
    /\ codec.softwareId = ToBits(66)
    /\ codec.componentId = ToBits(1383)
    /\ codec.status = ToBits(13)
    /\ codec.errorCode = ToBits(35073)

\* The allocated blocks that no running thread's context holds.
Leaked == LiveBlocks \ UNION {BufferOf(t) : t \in Threads \ exited}

(***************************************************************************)
(* C1.  After set_with_owned_info(X, T) followed by clear(), get() is 0    *)
(* and get_info() is the empty string, and afterwards T cannot come back   *)
(* unless it is supplied again: every step leaves get_info() as it was,    *)
(* or makes it empty, or makes it exactly the text supplied by that step.  *)
(***************************************************************************)
C1_ClearHidesOwnedInfo ==
    [][\A t \in Threads :
         /\ (last'.op = "clear" /\ last'.t = t) =>
               /\ cerror_get_last(t)' = {}
               /\ cerror_get_last_info(t)' = <<>>
         /\ cerror_get_last_info(t)' \in
               {cerror_get_last_info(t), <<>>, last'.text.str}]_vars

\* clear() has run on a context whose owned buffer still holds the rest of
\* the text Rep(2, 2) behind the zeroed first byte.
C1_Witness ==
    /\ last.op = "clear"
    /\ HasBuffer(last.t)
    /\ Len(OwnedBytes(last.t)) >= 3
    /\ OwnedBytes(last.t)[1] = [b |-> 0, n |-> 1]
    /\ OwnedBytes(last.t)[2] = [b |-> 2, n |-> 1]
    /\ cerror_get_last_info(last.t) = <<>>

(***************************************************************************)
(* C2.  A set_with_owned_info(X, T) with a non-absent T whose allocation   *)
(* (if any) succeeds leaves get() = X masked to 53 bits and get_info() = T *)
(* exactly, whatever came before, and stays inside the owned buffer.       *)
(***************************************************************************)
C2_OwnedInfoStored ==
    (last.op = "copy" /\ ~last.text.null /\ last.alloc # "fail") =>
        /\ cerror_get_last(last.t) = Low53(last.code)
        /\ cerror_get_last_info(last.t) = last.text.str
        /\ ~ub

\* A short text was copied into a buffer that had grown to 512 bytes for a
\* longer one, whose bytes still follow the new terminator.
C2_Witness ==
    /\ last.op = "copy" /\ last.alloc = "none"
    /\ last.text.str = Rep(2, 2)
    /\ ToNat(Ctx(last.t).nBufferCapacity) = 512
    /\ \E i \in 1..Len(OwnedBytes(last.t)) :
          OwnedBytes(last.t)[i].b = 1 /\ OwnedBytes(last.t)[i].n > 128
    /\ cerror_get_last_info(last.t) = Rep(2, 2)

C4_Original ==
    (last.op = "copy" /\ last.text.null) => aborted

(***************************************************************************)
(* C4, amended.  set_with_owned_info with a null text halts the program in *)
(* a build with assertions; in a build without them (NDEBUG) it returns    *)
(* normally; in both the context and the heap are untouched.               *)
(***************************************************************************)
C4_NullTextHaltsUnlessNDEBUG ==
    [][(last'.op = "copy" /\ last'.text.null) =>
          /\ aborted' = ~ndebug
          /\ g_LastErrorCtx' = g_LastErrorCtx
          /\ heap' = heap]_vars

\* A call with a null text has halted the program.
C4_Witness ==
    /\ last.op = "copy" /\ last.text.null
    /\ ~ndebug /\ aborted

(***************************************************************************)
(* C5.  From any reachable state cleanup() leaves the calling thread's     *)
(* context in the zero state with the owned buffer released, without       *)
(* failing; this includes a context that was never set and one that was    *)
(* just cleaned up.                                                        *)
(***************************************************************************)
C5_CleanupResets ==
    [][\A t \in Threads :
         (last'.op = "cleanup" /\ last'.t = t) =>
            /\ g_LastErrorCtx'[t] = ZeroContext
            /\ HasBuffer(t) =>
                  ~heap'[g_LastErrorCtx[t].pszLastErrorInfoBuffer.id].live
            /\ ~ub' /\ ~aborted']_vars

\* cleanup() has run and the context is in the zero state.
C5_Witness ==
    /\ last.op = "cleanup"
    /\ Ctx(last.t) = ZeroContext
    /\ \A a \in HeapAddrs : ~heap[a].live

(***************************************************************************)
(* C6.  In every reachable state owned_capacity is 0 exactly when the      *)
(* owned buffer is absent.                                                 *)
(***************************************************************************)
C6_CapacityZeroIffNoBuffer ==
    \A t \in Threads :
        (Ctx(t).nBufferCapacity = {}) <=> (Ctx(t).pszLastErrorInfoBuffer = NULL)

\* The very first allocation failed: there is still no buffer and no capacity.
C6_Witness ==
    /\ last.op = "copy" /\ last.alloc = "fail"
    /\ ~HasBuffer(last.t)
    /\ Ctx(last.t).nBufferCapacity = {}

(***************************************************************************)
(* C7.  In every reachable state, if info_view refers to the owned buffer  *)
(* then the buffer is present and live, as large as owned_capacity, and    *)
(* holds a string whose terminating zero byte lies inside it: the string   *)
(* is shorter than owned_capacity and no indeterminate byte precedes its   *)
(* terminator.                                                             *)
(***************************************************************************)
C7_OwnedViewTerminated ==
    \A t \in Threads :
        Ctx(t).pszLastErrorInfo.region = "heap" =>
            /\ HasBuffer(t)
            /\ Ctx(t).pszLastErrorInfo = Ctx(t).pszLastErrorInfoBuffer
            /\ heap[Ctx(t).pszLastErrorInfoBuffer.id].live
            /\ ByteLen(OwnedBytes(t)) = ToNat(Ctx(t).nBufferCapacity)
            /\ \A i \in 1..Len(CStr(OwnedBytes(t))) :
                  CStr(OwnedBytes(t))[i].b # Uninit
            /\ ByteLen(CStr(OwnedBytes(t))) < ToNat(Ctx(t).nBufferCapacity)

\* The owned string fills the buffer up to its last byte, the terminator.
C7_Witness ==
    \E t \in Threads :
        /\ Ctx(t).pszLastErrorInfo.region = "heap"
        /\ ByteLen(cerror_get_last_info(t)) + 1 = ToNat(Ctx(t).nBufferCapacity)

(***************************************************************************)
(* C8.  Original statement: last_code never has a bit at position 53 or    *)
(* above, and get() is the argument of the most recent set /               *)
(* set_with_borrowed_info / set_with_owned_info masked to 53 bits, or 0    *)
(* after thread start, clear() or cleanup().  Stated per step: a returning *)
(* call of one of the three makes get() its masked argument, clear() and   *)
(* cleanup() make it 0, and nothing else changes it.                       *)
(***************************************************************************)
C8_Original ==
    [][\A t \in Threads :
         /\ cerror_get_last(t)' \subseteq 0..52
         /\ IF last'.t = t /\ last'.op \in {"set", "borrow", "copy"}
            THEN ~aborted' => cerror_get_last(t)' = Low53(last'.code)
            ELSE IF last'.t = t /\ last'.op \in {"clear", "cleanup"}
            THEN cerror_get_last(t)' = {}
            ELSE cerror_get_last(t)' = cerror_get_last(t)]_vars

(***************************************************************************)
(* C8, amended.  As the original, except that a set_with_owned_info call   *)
(* with a null text does not count: it leaves last_code as it was.         *)
(***************************************************************************)
C8_CodeMaskedAndLatest ==
    [][\A t \in Threads :
         /\ cerror_get_last(t)' \subseteq 0..52
         /\ IF last'.t = t /\ (\/ last'.op \in {"set", "borrow"}
                               \/ last'.op = "copy" /\ ~last'.text.null)
            THEN cerror_get_last(t)' = Low53(last'.code)
            ELSE IF last'.t = t /\ last'.op \in {"clear", "cleanup"}
            THEN cerror_get_last(t)' = {}
            ELSE cerror_get_last(t)' = cerror_get_last(t)]_vars

\* set(0xFFFFFFFFFFFFFFFF) has run and get() returns the low 53 bits.
C8_Witness ==
    /\ last.op = "set"
    /\ last.code = 0..63
    /\ cerror_get_last(last.t) = 0..52

(***************************************************************************)
(* C9.  When the required size L+1 exceeds the current capacity, the new   *)
(* capacity is the larger of 128 and the smallest power of two that is at  *)
(* least L+1, hence a power of two that is at least 128.                   *)
(***************************************************************************)
C9_GrowthPolicy ==
    (sz.done /\ Gt(sz.n, sz.current)) =>
        /\ sz.capacity =
              Larger(ToBits(ERROR_INFO_INITIAL_CAPACITY),
                     SmallestPow2AtLeast(sz.n))
        /\ IsPow2(sz.capacity)
        /\ ~Gt(ToBits(ERROR_INFO_INITIAL_CAPACITY), sz.capacity)

(***************************************************************************)
(* C10.  owned_capacity never decreases except by cleanup(): set(),        *)
(* clear(), set_with_borrowed_info() and a set_with_owned_info() that      *)
(* fits keep the buffer and its capacity, a growing set_with_owned_info()  *)
(* only raises the capacity, and cleanup() returns it to 0.                *)
(***************************************************************************)
C10_CapacityHighWaterMark ==
    [][\A t \in Threads :
         LET before == g_LastErrorCtx[t]
             after == g_LastErrorCtx'[t]
         IN
         IF last'.t = t /\ last'.op = "cleanup"
         THEN after.nBufferCapacity = {}
         ELSE IF last'.t = t /\ last'.op = "copy" /\ last'.alloc # "none"
         THEN ~Gt(before.nBufferCapacity, after.nBufferCapacity)
         ELSE /\ after.nBufferCapacity = before.nBufferCapacity
              /\ after.pszLastErrorInfoBuffer = before.pszLastErrorInfoBuffer]_vars

\* clear() has run on a context whose buffer had grown to 512 bytes, and the
\* buffer is still that large.
C10_Witness ==
    /\ last.op = "clear"
    /\ HasBuffer(last.t)
    /\ ToNat(Ctx(last.t).nBufferCapacity) = 512
    /\ ByteLen(OwnedBytes(last.t)) = 512

(***************************************************************************)
(* C11.  set(code) changes only last_code: info_view, the owned buffer's   *)
(* presence and contents and owned_capacity are unchanged, so get_info()   *)
(* returns after the call the string it returned before it.                *)
(***************************************************************************)
C11_SetChangesOnlyCode ==
    [][\A t \in Threads :
         (last'.op = "set" /\ last'.t = t) =>
            /\ g_LastErrorCtx'[t] =
                  [g_LastErrorCtx[t] EXCEPT !.ullLastError = Low53(last'.code)]
            /\ heap' = heap
            /\ callerMem' = callerMem
            /\ cerror_get_last_info(t)' = cerror_get_last_info(t)]_vars

\* set() has stored a code while the owned info of an earlier call, a text
\* of LongLen bytes, is still what get_info() returns.
C11_Witness ==
    /\ last.op = "set"
    /\ cerror_get_last(last.t) = Low53(last.code)
    /\ Ctx(last.t).pszLastErrorInfo.region = "heap"
    /\ cerror_get_last_info(last.t) = Rep(1, LongLen)

(***************************************************************************)
(* C12.  set_with_borrowed_info(X, S) makes no copy: it points info_view   *)
(* at S and leaves the owned buffer, its contents and its capacity alone,  *)
(* and a later in-place change of S is what get_info() returns.            *)
(* set_with_owned_info(X, S) points info_view at the owned buffer, and a   *)
(* later change of S leaves what get_info() returns as it was.             *)
(***************************************************************************)
C12_BorrowedAliasesOwnedCopies ==
    [][\A t \in Threads :
         LET before == g_LastErrorCtx[t]
             after == g_LastErrorCtx'[t]
         IN
         /\ (last'.op = "borrow" /\ last'.t = t) =>
               /\ after.pszLastErrorInfo = last'.ptr
               /\ after.pszLastErrorInfoBuffer = before.pszLastErrorInfoBuffer
               /\ after.nBufferCapacity = before.nBufferCapacity
               /\ heap' = heap
         /\ (last'.op = "copy" /\ last'.t = t /\ ~last'.text.null
                /\ last'.alloc # "fail") =>
               /\ after.pszLastErrorInfo.region = "heap"
               /\ cerror_get_last_info(t)' = last'.text.str
         /\ (last'.op = "write" /\ before.pszLastErrorInfo = last'.ptr) =>
               cerror_get_last_info(t)' = last'.text.str
         /\ (last'.op = "write" /\ before.pszLastErrorInfo.region = "heap") =>
               cerror_get_last_info(t)' = cerror_get_last_info(t)]_vars

\* The caller has overwritten its string, whose earlier content Rep(2, 2)
\* had been handed to set_with_owned_info: get_info() still returns Rep(2, 2),
\* not what the string holds now.
C12_Witness ==
    /\ last.op = "write"
    /\ callerMem[last.ptr.id] = Rep(4, 1)
    /\ Ctx(last.t).pszLastErrorInfo.region = "heap"
    /\ cerror_get_last_info(last.t) = Rep(2, 2)

(***************************************************************************)
(* C13.  With several threads in any interleaving, a step of one thread    *)
(* leaves every other thread's context, owned buffer contents, get() and   *)
(* get_info() unchanged, and every thread's get() and get_info() return    *)
(* only what that thread stored: 0 or its own code, the empty string, one  *)
(* of its own texts or the string it borrowed.                             *)
(***************************************************************************)
C13_ThreadsIsolated ==
    [][\A t \in Threads :
         /\ \A u \in Threads \ {t} :
               last'.t = t =>
                  /\ g_LastErrorCtx'[u] = g_LastErrorCtx[u]
                  /\ OwnedBytes(u)' = OwnedBytes(u)
                  /\ cerror_get_last(u)' = cerror_get_last(u)
                  /\ cerror_get_last_info(u)' = cerror_get_last_info(u)
         /\ cerror_get_last(t)' \in { {}, Low53(ThreadCode(t)) }
         /\ cerror_get_last_info(t)' \in
               {<<>>} \cup ThreadTexts(t) \cup {callerMem[1]}]_vars

\* Two threads hold their own code and their own owned text at the same
\* time, in two different heap blocks.
C13_Witness ==
    \E t, u \in Threads :
        /\ t # u
        /\ last.t = u
        /\ cerror_get_last(t) = Low53(ThreadCode(t))
        /\ cerror_get_last(u) = Low53(ThreadCode(u))
        /\ cerror_get_last_info(t) = Rep(t, 2)
        /\ cerror_get_last_info(u) = Rep(u, 2)
        /\ Ctx(t).pszLastErrorInfo.region = "heap"
        /\ Ctx(u).pszLastErrorInfo.region = "heap"
        /\ Ctx(t).pszLastErrorInfoBuffer # Ctx(u).pszLastErrorInfoBuffer

(***************************************************************************)
(* C14.  cleanup() leaves the context equal to a fresh one, and the calls  *)
(* that follow the release of a buffer behave as on a fresh one: a         *)
(* set_with_owned_info(X, T) whose allocation succeeds obtains a new block *)
(* whose size is the larger of 128 and the smallest power of two that is   *)
(* at least length(T)+1 and get_info() returns T, and set(X) makes get()   *)
(* return X masked.  No call touches released storage, and no pointer of   *)
(* the context refers to a block that is not live.                         *)
(***************************************************************************)
C14_ReusableAfterCleanup ==
    [][\A t \in Threads :
         LET before == g_LastErrorCtx[t]
             after == g_LastErrorCtx'[t]
         IN
         /\ (last'.op = "cleanup" /\ last'.t = t) => after = ZeroContext
         /\ (last'.reused /\ last'.t = t /\ last'.op = "copy"
                /\ ~last'.text.null /\ last'.alloc # "fail") =>
               /\ before = ZeroContext
               /\ last'.alloc = "moved"
               /\ after.nBufferCapacity =
                     Larger(ToBits(ERROR_INFO_INITIAL_CAPACITY),
                            SmallestPow2AtLeast(ToBits(ByteLen(last'.text.str) + 1)))
               /\ ByteLen(OwnedBytes(t)') = ToNat(after.nBufferCapacity)
               /\ cerror_get_last_info(t)' = last'.text.str
               /\ cerror_get_last(t)' = Low53(last'.code)
         /\ (last'.reused /\ last'.t = t /\ last'.op = "set") =>
               cerror_get_last(t)' = Low53(last'.code)
         /\ ~ub'
         /\ \A p \in {after.pszLastErrorInfo, after.pszLastErrorInfoBuffer} :
               p.region = "heap" => heap'[p.id].live]_vars

\* After cleanup() had released a buffer, set_with_owned_info stored a text
\* of LongLen bytes in a newly allocated block of 512 bytes.
C14_Witness ==
    /\ last.op = "copy" /\ last.reused /\ last.alloc = "moved"
    /\ last.text.str = Rep(1, LongLen)
    /\ ToNat(Ctx(last.t).nBufferCapacity) = 512
    /\ cerror_get_last_info(last.t) = Rep(1, LongLen)

(***************************************************************************)
(* C15.  At every point the allocated blocks are exactly the owned buffers *)
(* of the contexts, one per context that has an owned buffer and none for  *)
(* one that has not: growth replaces the block, cleanup() releases it.  A  *)
(* thread that ends without cleanup() leaves the heap as it is, so that    *)
(* what it leaks is exactly its owned buffer, if it has one.               *)
(***************************************************************************)
C15_SingleAllocation ==
    [][/\ LiveBlocks' = UNION {BufferOf(t)' : t \in Threads}
       /\ \A t, u \in Threads : t # u => BufferOf(t)' \cap BufferOf(u)' = {}
       /\ \A t \in Threads :
             /\ Cardinality(BufferOf(t)') <= 1
             /\ (last'.op = "cleanup" /\ last'.t = t) =>
                   /\ BufferOf(t)' = {}
                   /\ LiveBlocks' = LiveBlocks \ BufferOf(t)
             /\ (last'.op = "exit" /\ last'.t = t) =>
                   /\ heap' = heap
                   /\ Leaked' = Leaked \cup BufferOf(t)]_vars

\* A thread has ended holding a buffer that had grown to 512 bytes: this
\* block is the one allocated block, and it is leaked.
C15_Witness ==
    /\ last.op = "exit"
    /\ last.t \in exited
    /\ ToNat(Ctx(last.t).nBufferCapacity) = 512
    /\ Leaked = BufferOf(last.t)
    /\ LiveBlocks = BufferOf(last.t)
    /\ Cardinality(LiveBlocks) = 1

C17_RoundTrip ==
    (codec.stage = "packed" /\ FieldsInRange) =>
        /\ GET_RESERVED(codec.code) = codec.reserved
        /\ GET_SOFTWARE_ID(codec.code) = codec.softwareId
        /\ GET_COMPONENT_ID(codec.code) = codec.componentId
        /\ GET_STATUS(codec.code) = codec.status
        /\ GET_ERROR_CODE(codec.code) = codec.errorCode

\* The code has been constructed from the largest value of every field but
\* the status, which is the example's 0x0D: all bits from 0 to 52 are set
\* except bits 17 and 20.
C17_Witness ==
    /\ codec.stage = "packed"
    /\ codec.reserved = 0..12
    /\ codec.softwareId = 0..7
    /\ codec.componentId = 0..10
    /\ codec.status = ToBits(13)
    /\ codec.errorCode = 0..15
    /\ codec.code = (0..52) \ {17, 20}

(***************************************************************************)
(* C18.  Each field getter of the context equals the extraction macro of   *)
(* its field applied to last_code.  After set(code) with a code that was   *)
(* constructed from fields within their ranges, get_status(),              *)
(* get_component_id(), get_software_id() and get_field_code() return the   *)
(* fields; after clear() or cleanup() they return 0.                       *)
(***************************************************************************)
C18_GettersUnpackLastCode ==
    /\ \A t \in Threads :
          /\ cerror_get_last_code(t) = GET_ERROR_CODE(cerror_get_last(t))
          /\ cerror_get_last_status(t) = GET_STATUS(cerror_get_last(t))
          /\ cerror_get_last_component_id(t) = GET_COMPONENT_ID(cerror_get_last(t))
          /\ cerror_get_last_software_id(t) = GET_SOFTWARE_ID(cerror_get_last(t))
    /\ (last.op = "set" /\ codec.stage = "packed" /\ FieldsInRange) =>
          /\ cerror_get_last_status(last.t) = codec.status
          /\ cerror_get_last_component_id(last.t) = codec.componentId
          /\ cerror_get_last_software_id(last.t) = codec.softwareId
          /\ cerror_get_last_code(last.t) = codec.errorCode
    /\ last.op \in {"clear", "cleanup"} =>
          /\ cerror_get_last_status(last.t) = {}
          /\ cerror_get_last_component_id(last.t) = {}
          /\ cerror_get_last_software_id(last.t) = {}
          /\ cerror_get_last_code(last.t) = {}

\* The code of the example program has been set: the getters return 0x0D,
\* 0x567, 0x42 and 0x8901.
C18_Witness ==
    /\ last.op = "set"
    /\ codec.stage = "packed" /\ ExampleFields
    /\ cerror_get_last_status(last.t) = ToBits(13)
    /\ cerror_get_last_component_id(last.t) = ToBits(1383)
    /\ cerror_get_last_software_id(last.t) = ToBits(66)
    /\ cerror_get_last_code(last.t) = ToBits(35073)

(***************************************************************************)
(* C19.  The construction masks every argument to its field width: the     *)
(* code is the one constructed from the arguments reduced modulo           *)
(* 2^width, each extraction returns its argument reduced modulo 2^width    *)
(* whatever the other arguments are, and a reserved argument of 8192       *)
(* gives the code a reserved argument of 0 gives.  No error is raised.     *)
(***************************************************************************)
C19_PackTruncates ==
    codec.stage = "packed" =>
        /\ codec.code =
              MAKE_ERROR_CODE_53(Mod2(codec.reserved, 13), Mod2(codec.softwareId, 8),
                                 Mod2(codec.componentId, 11), Mod2(codec.status, 5),
                                 Mod2(codec.errorCode, 16))
        /\ GET_RESERVED(codec.code) = Mod2(codec.reserved, 13)
        /\ GET_SOFTWARE_ID(codec.code) = Mod2(codec.softwareId, 8)
        /\ GET_COMPONENT_ID(codec.code) = Mod2(codec.componentId, 11)
        /\ GET_STATUS(codec.code) = Mod2(codec.status, 5)
        /\ GET_ERROR_CODE(codec.code) = Mod2(codec.errorCode, 16)
        /\ codec.reserved = ToBits(8192) =>
              codec.code =
                 MAKE_ERROR_CODE_53({}, codec.softwareId, codec.componentId,
                                    codec.status, codec.errorCode)
        /\ ~aborted /\ ~ub

\* The code has been constructed from a reserved argument of 8192 and a
\* software id argument with all 64 bits set: its reserved field is 0, its
\* software id is 255 and the other fields are those of the example.
C19_Witness ==
    /\ codec.stage = "packed"
    /\ codec.reserved = ToBits(8192)
    /\ codec.softwareId = 0..(WordBits - 1)
    /\ codec.componentId = ToBits(1383)
    /\ codec.status = ToBits(13)
    /\ codec.errorCode = ToBits(35073)
    /\ GET_RESERVED(codec.code) = {}
    /\ GET_SOFTWARE_ID(codec.code) = ToBits(255)
    /\ GET_COMPONENT_ID(codec.code) = ToBits(1383)

(***************************************************************************)
(* C20.  is_valid(code) is true exactly when the code has no bit at        *)
(* position 53 or above: it is true of 0 and of every constructed code     *)
(* whatever the arguments, and false of 2^53 and of 0xFFFFFFFFFFFFFFFF.    *)
(***************************************************************************)
C20_ValidIffLow53 ==
    /\ codec.stage # "fields" =>
          (IS_VALID_ERROR_CODE(codec.code) <=> codec.code \cap (53..63) = {})
    /\ codec.stage = "packed" => IS_VALID_ERROR_CODE(codec.code)
    /\ IS_VALID_ERROR_CODE({})
    /\ ~IS_VALID_ERROR_CODE({53})
    /\ ~IS_VALID_ERROR_CODE(0..63)

\* The code has been constructed from five arguments with all 64 bits set:
\* it has exactly the bits 0 to 52, and it is valid.
C20_Witness ==
    /\ codec.stage = "packed"
    /\ codec.reserved = 0..(WordBits - 1)
    /\ codec.softwareId = 0..(WordBits - 1)
    /\ codec.componentId = 0..(WordBits - 1)
    /\ codec.status = 0..(WordBits - 1)
    /\ codec.errorCode = 0..(WordBits - 1)
    /\ codec.code = 0..52
    /\ IS_VALID_ERROR_CODE(codec.code)

(***************************************************************************)
(* C21.  A set_with_owned_info(X, T) with length(T)+1 not greater than the *)
(* current owned_capacity performs no allocation: the allocator is not     *)
(* called, so the call cannot fail; it keeps the buffer and its capacity,  *)
(* writes only into the buffer, returns, and get_info() returns T.         *)
(***************************************************************************)
C21_FittingCopyNeverAllocates ==
    [][\A t \in Threads :
         LET before == g_LastErrorCtx[t]
             after == g_LastErrorCtx'[t]
         IN
         (/\ last'.op = "copy" /\ last'.t = t /\ ~last'.text.null
          /\ ~Gt(ToBits(ByteLen(last'.text.str) + 1), before.nBufferCapacity)) =>
            /\ last'.alloc = "none"
            /\ after.pszLastErrorInfoBuffer = before.pszLastErrorInfoBuffer
            /\ after.nBufferCapacity = before.nBufferCapacity
            /\ LiveBlocks' = LiveBlocks
            /\ \A a \in HeapAddrs \ BufferOf(t) : heap'[a] = heap[a]
            /\ ~aborted' /\ ~ub'
            /\ cerror_get_last(t)' = Low53(last'.code)
            /\ cerror_get_last_info(t)' = last'.text.str]_vars

\* A text of 128 bytes, which needs 129, was copied without allocation into
\* a buffer that an earlier text had made 512 bytes large.
C21_Witness ==
    /\ last.op = "copy" /\ last.alloc = "none"
    /\ last.text.str = Rep(3, ERROR_INFO_INITIAL_CAPACITY)
    /\ ToNat(Ctx(last.t).nBufferCapacity) = 512
    /\ cerror_get_last_info(last.t) = Rep(3, ERROR_INFO_INITIAL_CAPACITY)

(***************************************************************************)
(* C22.  When set_with_owned_info is called with a null text and returns   *)
(* (assertions compiled out), no field of the context has changed:         *)
(* last_code keeps its previous value, not the argument, and info_view,    *)
(* the owned buffer and owned_capacity are unchanged.                      *)
(***************************************************************************)
C22_NullTextLeavesContext ==
    [][\A t \in Threads :
         (last'.op = "copy" /\ last'.t = t /\ last'.text.null /\ ~aborted') =>
            /\ g_LastErrorCtx'[t] = g_LastErrorCtx[t]
            /\ heap' = heap
            /\ cerror_get_last(t)' = cerror_get_last(t)
            /\ cerror_get_last_info(t)' = cerror_get_last_info(t)]_vars

\* A call with a null text and the code 0xFFFFFFFFFFFFFFFF has returned:
\* get() is still the earlier code and get_info() the earlier owned text.
C22_Witness ==
    /\ last.op = "copy" /\ last.text.null
    /\ ndebug /\ ~aborted
    /\ last.code = 0..(WordBits - 1)
    /\ cerror_get_last(last.t) = {0, 16, 21, 32, 40}
    /\ Ctx(last.t).pszLastErrorInfo.region = "heap"
    /\ cerror_get_last_info(last.t) = Rep(1, LongLen)

(***************************************************************************)
(* C23.  In every reachable state info_view is absent, a reference the     *)
(* caller supplied, or the current owned buffer, which is allocated; it    *)
(* never refers to a block that was released or reallocated away.  No      *)
(* operation of the context changes a caller's string.                     *)
(***************************************************************************)
C23_InfoViewNeverStale ==
    [][/\ \A t \in Threads :
             LET info == g_LastErrorCtx'[t].pszLastErrorInfo IN
             \/ info = NULL
             \/ info.region = "caller" /\ info.id \in CallerStrings
             \/ /\ info.region = "heap"
                /\ info = g_LastErrorCtx'[t].pszLastErrorInfoBuffer
                /\ heap'[info.id].live
       /\ last'.op # "write" => callerMem' = callerMem]_vars

\* The buffer has moved from block 1 to block 2 while it grew: info_view
\* refers to block 2, and block 1 is released.
C23_Witness ==
    /\ last.op = "copy" /\ last.alloc = "moved"
    /\ Ctx(last.t).pszLastErrorInfo = HeapPtr(2)
    /\ Ctx(last.t).pszLastErrorInfoBuffer = HeapPtr(2)
    /\ heap[2].live /\ ~heap[1].live

(***************************************************************************)
(* C24.  In the C++ wrapper, a thread that has called setLastError,        *)
(* setLastErrorInfo or setLastErrorInfoCopy has its cleanup helper         *)
(* constructed when the call modifies the context; when such a thread      *)
(* ends, cleanup runs and its owned buffer is released, so no block        *)
(* allocated by a thread that used these wrappers is left allocated after  *)
(* the thread has ended.                                                   *)
(***************************************************************************)
C24_WrapperReleasesAtExit ==
    /\ wrapper \in {"setLastError", "setLastErrorInfo", "setLastErrorInfoCopy"} =>
          last.t \in helper
    /\ \A t \in exited \cap helper : Ctx(t) = ZeroContext
    /\ (last.op = "exit" /\ last.t \in helper /\ last.ptr # NULL) =>
          ~heap[last.ptr.id].live
    /\ Leaked \subseteq UNION {BufferOf(t) : t \in exited \ helper}

\* A thread that copied a text through setLastErrorInfoCopy has ended and
\* the block that was its buffer is free, while the block of a thread that
\* called only the C function and ended is still allocated.
C24_Witness ==
    /\ last.op = "exit" /\ last.t \in helper /\ last.alloc = "free"
    /\ ~heap[last.ptr.id].live
    /\ Leaked # {}
    /\ \E t \in exited \ helper : Leaked = BufferOf(t)

====
